---- MODULE Spec2Model ----
(***************************************************************************)
(* Starship Configurator: the in-memory TOML document (config_data), the   *)
(* per-module forms (module_widgets), the flat module list, the raw TOML   *)
(* editor and the configuration file, with the handlers of                 *)
(* src/starship_configurator.py that move data between them.               *)
(***************************************************************************)
EXTENDS Integers, Sequences, FiniteSets, TLC

(***************************************************************************)
(* TOML values.  Every value is a record of one shape; `t` is the type tag *)
(* and only the field of that type is meaningful.  A string is the         *)
(* sequence of its whitespace-separated words; a word is either a colour   *)
(* token `kind:val` (kind bg, fg or color), a plain word, or the blank     *)
(* word "ws" that stands for a text made of whitespace only.               *)
(***************************************************************************)
BoolV(b) == [t |-> "bool", b |-> b, n |-> 0, s |-> <<>>, a |-> <<>>, e |-> <<>>]
IntV(n) == [t |-> "int", b |-> FALSE, n |-> n, s |-> <<>>, a |-> <<>>, e |-> <<>>]
StrV(s) == [t |-> "str", b |-> FALSE, n |-> 0, s |-> s, a |-> <<>>, e |-> <<>>]
ArrV(a) == [t |-> "array", b |-> FALSE, n |-> 0, s |-> <<>>, a |-> a, e |-> <<>>]
TblV(e) == [t |-> "table", b |-> FALSE, n |-> 0, s |-> <<>>, a |-> <<>>, e |-> e]
CmtV(s) == [t |-> "comment", b |-> FALSE, n |-> 0, s |-> s, a |-> <<>>, e |-> <<>>]

Word(v) == [kind |-> "word", val |-> v]
Tok(k, v) == [kind |-> k, val |-> v]
Blank == <<[kind |-> "ws", val |-> " "]>>
Text(v) == <<Word(v)>>

\* An entry of a container body: key and value (a comment has the key "").
Entry(k, v) == [k |-> k, v |-> v]

IsTable(v) == v.t = "table"

\* str.strip() on a string of words.
Strip(s) == SelectSeq(s, LAMBDA w : w.kind # "ws")

(***************************************************************************)
(* tomlkit containers: a body is the ordered list of its entries.          *)
(***************************************************************************)
Has(body, k) == \E i \in DOMAIN body : body[i].k = k

IndexOf(body, k) == CHOOSE i \in DOMAIN body : body[i].k = k

Get(body, k) == body[IndexOf(body, k)].v

\* dict.get(k, default)
GetOr(body, k, d) == IF Has(body, k) THEN Get(body, k) ELSE d

Keys(body) == {body[i].k : i \in DOMAIN body} \ {""}

\* The index after the last entry that is not a table: a new value that is
\* not a table is inserted there, before the first table of the body.
LastIndexBeforeTable(body) ==
    IF \E i \in DOMAIN body : ~IsTable(body[i].v)
    THEN CHOOSE i \in DOMAIN body :
            /\ ~IsTable(body[i].v)
            /\ \A j \in DOMAIN body : ~IsTable(body[j].v) => j <= i
    ELSE 0

InsertAt(body, i, x) == SubSeq(body, 1, i) \o <<x>> \o SubSeq(body, i + 1, Len(body))

\* container[k] = v: an existing key is replaced in place, a new one appended
\* (a new non-table value goes before the first table).
Put(body, k, v) ==
    IF Has(body, k)
    THEN [body EXCEPT ![IndexOf(body, k)] = Entry(k, v)]
    ELSE IF IsTable(v)
         THEN Append(body, Entry(k, v))
         ELSE InsertAt(body, LastIndexBeforeTable(body), Entry(k, v))

\* del container[k]
Del(body, k) == SelectSeq(body, LAMBDA x : x.k # k)

\* tomlkit.document(): the empty document, falsy in Python.
EmptyDoc == <<>>

\* bool(config_data): an empty document is falsy, like an empty dict.
Truthy(doc) == Keys(doc) # {}

(***************************************************************************)
(* TOML text: the sequence of its lines.  A line is a comment, a           *)
(* `key = value` pair, a table header `[a]` or `[a.b]` (path: the parts of *)
(* the header; a quoted key "a.b" is one part), or junk that is no TOML.   *)
(***************************************************************************)
LComment(s) == [kind |-> "comment", path |-> <<>>, key |-> "", val |-> CmtV(s)]
LKeyVal(k, v) == [kind |-> "kv", path |-> <<>>, key |-> k, val |-> v]
LHeader(p) == [kind |-> "header", path |-> p, key |-> "", val |-> CmtV(<<>>)]
LJunk == [kind |-> "junk", path |-> <<>>, key |-> "", val |-> CmtV(<<>>)]

\* The lines of the entries of a body that are not tables.
ScalarLines(body) ==
    [i \in DOMAIN SelectSeq(body, LAMBDA x : ~IsTable(x.v)) |->
        LET x == SelectSeq(body, LAMBDA y : ~IsTable(y.v))[i]
        IN  IF x.v.t = "comment" THEN LComment(x.v.s) ELSE LKeyVal(x.k, x.v)]

SubTables(body) == SelectSeq(body, LAMBDA x : IsTable(x.v))

RECURSIVE Flatten(_)
Flatten(seqs) == IF seqs = <<>> THEN <<>> ELSE Head(seqs) \o Flatten(Tail(seqs))

\* A table of the document: its header and values, then its child tables as
\* [parent.child]; a table holding only child tables shows no header of its own.
TableLines(k, body) ==
    LET subs == SubTables(body)
        own == IF subs # <<>> /\ Len(subs) = Len(body)
               THEN <<>>
               ELSE <<LHeader(<<k>>)>> \o ScalarLines(body)
    IN  own \o Flatten([i \in DOMAIN subs |->
                <<LHeader(<<k, subs[i].k>>)>> \o ScalarLines(subs[i].v.e)])

\* TOMLDocument.as_string()
Serialize(doc) ==
    LET tabs == SubTables(doc)
    IN  ScalarLines(doc) \o Flatten([i \in DOMAIN tabs |-> TableLines(tabs[i].k, tabs[i].v.e)])

\* One line added to the document being parsed; cur is the path of the table
\* the following values belong to.  A duplicate key or table, and junk, are
\* parse errors.
ParseLine(st, ln) ==
    IF ~st.ok THEN st
    ELSE IF ln.kind = "junk" THEN [st EXCEPT !.ok = FALSE]
    ELSE IF ln.kind = "header" THEN
        IF Len(ln.path) = 1
        THEN IF Has(st.doc, ln.path[1])
             THEN [st EXCEPT !.ok = FALSE]
             ELSE [st EXCEPT !.doc = Append(st.doc, Entry(ln.path[1], TblV(<<>>))),
                             !.cur = ln.path]
        ELSE LET p == ln.path[1]
                 c == ln.path[2]
             IN  IF ~Has(st.doc, p)
                 THEN [st EXCEPT !.doc = Append(st.doc, Entry(p, TblV(<<Entry(c, TblV(<<>>))>>))),
                                 !.cur = ln.path]
                 ELSE IF ~IsTable(Get(st.doc, p)) \/ Has(Get(st.doc, p).e, c)
                      THEN [st EXCEPT !.ok = FALSE]
                      ELSE [st EXCEPT !.doc = Put(st.doc, p,
                                        TblV(Append(Get(st.doc, p).e, Entry(c, TblV(<<>>))))),
                                      !.cur = ln.path]
    ELSE LET x == IF ln.kind = "comment" THEN Entry("", ln.val) ELSE Entry(ln.key, ln.val)
         IN  IF Len(st.cur) = 0
             THEN IF ln.kind = "kv" /\ Has(st.doc, ln.key)
                  THEN [st EXCEPT !.ok = FALSE]
                  ELSE [st EXCEPT !.doc = Append(st.doc, x)]
             ELSE IF Len(st.cur) = 1
             THEN LET tb == Get(st.doc, st.cur[1]).e
                  IN  IF ln.kind = "kv" /\ Has(tb, ln.key)
                      THEN [st EXCEPT !.ok = FALSE]
                      ELSE [st EXCEPT !.doc = Put(st.doc, st.cur[1], TblV(Append(tb, x)))]
             ELSE LET pb == Get(st.doc, st.cur[1]).e
                      tb == Get(pb, st.cur[2]).e
                  IN  IF ln.kind = "kv" /\ Has(tb, ln.key)
                      THEN [st EXCEPT !.ok = FALSE]
                      ELSE [st EXCEPT !.doc = Put(st.doc, st.cur[1],
                                TblV(Put(pb, st.cur[2], TblV(Append(tb, x)))))]

RECURSIVE ParseFrom(_, _)
ParseFrom(st, lines) ==
    IF lines = <<>> THEN st ELSE ParseFrom(ParseLine(st, Head(lines)), Tail(lines))

\* tomlkit.loads(text) / tomlkit.load(f) / tomlkit.parse(text): ok is FALSE
\* when the text is malformed (the call raises).
Parse(text) == ParseFrom([ok |-> TRUE, doc |-> EmptyDoc, cur |-> <<>>], text)

(***************************************************************************)
(* Qt widgets.  One record shape for every widget kind: QCheckBox          *)
(* (checked), QLineEdit (text), QSpinBox (value within lo..hi), QTextEdit  *)
(* of a module field (lines), and the composite multi-colour widget        *)
(* (color_fields: the ordered dict of its sub-fields).                     *)
(***************************************************************************)
Widget(kind, checked, text, value, lo, hi, lines, cf) ==
    [kind |-> kind, checked |-> checked, text |-> text, value |-> value,
     lo |-> lo, hi |-> hi, lines |-> lines, color_fields |-> cf]

QCheckBox(c) == Widget("QCheckBox", c, <<>>, 0, 0, 0, <<>>, <<>>)
QLineEdit(s) == Widget("QLineEdit", FALSE, s, 0, 0, 0, <<>>, <<>>)
QTextEdit(ls) == Widget("QTextEdit", FALSE, <<>>, 0, 0, 0, ls, <<>>)
Composite(cf) == Widget("Composite", FALSE, <<>>, 0, 0, 0, <<>>, cf)

Clamp(v, lo, hi) == IF v < lo THEN lo ELSE IF v > hi THEN hi ELSE v

\* QSpinBox(): range 0..99 and value 0; setRange keeps the value in range.
QSpinBox(lo, hi, v) == Widget("QSpinBox", FALSE, <<>>, Clamp(v, lo, hi), lo, hi, <<>>, <<>>)

\* QSpinBox.setValue
SetValue(w, v) == [w EXCEPT !.value = Clamp(v, w.lo, w.hi)]

\* str(value) of a document or schema value, as a string of words.
StrOf(v) ==
    CASE v.t = "str" -> v.s
      [] v.t = "bool" -> IF v.b THEN Text("True") ELSE Text("False")
      [] v.t = "int" -> Text(ToString(v.n))
      [] v.t = "array" -> IF v.a = <<>> THEN Text("[]") ELSE Text("[...]")
      [] OTHER -> Text("{...}")

\* QTextEdit.toPlainText().strip() of a field: blank lines at both ends go.
RECURSIVE StripLines(_)
StripLines(ls) ==
    IF ls = <<>> THEN <<>>
    ELSE IF Head(ls) = "" THEN StripLines(Tail(ls))
    ELSE IF ls[Len(ls)] = "" THEN StripLines(SubSeq(ls, 1, Len(ls) - 1))
    ELSE ls

(***************************************************************************)
(* Colour tokens of a style string.                                        *)
(***************************************************************************)
ColorKinds == {"bg", "fg", "color"}

\* re.findall(r'\b(bg|fg|color):', value) finds something
HasColorSpec(s) == \E i \in DOMAIN s : s[i].kind \in ColorKinds

\* What (#[0-9a-fA-F]{6}|[a-z]+) matches at the start of a token value: a
\* six-digit hex colour or the leading run of lower-case letters; "" when the
\* value starts with neither (a colour number such as 27).
MatchedValue(val) ==
    CASE val = "27" -> ""
      [] val = "bright-blue" -> "bright"
      [] OTHER -> val

\* re.findall(r'(bg|fg|color):(#[0-9a-fA-F]{6}|[a-z]+)', value): the
\* (type, value) pairs in the order of the text.
ColorSpecs(s) ==
    LET hits == SelectSeq(s, LAMBDA w : w.kind \in ColorKinds /\ MatchedValue(w.val) # "")
    IN  [i \in DOMAIN hits |-> [type |-> hits[i].kind, value |-> MatchedValue(hits[i].val)]]

CfHas(cf, type) == \E i \in DOMAIN cf : cf[i].type = type

\* color_fields[type] = a QLineEdit holding text (a dict: a repeated type
\* keeps its place and takes the later widget).
CfSet(cf, type, text) ==
    IF CfHas(cf, type)
    THEN [i \in DOMAIN cf |-> IF cf[i].type = type THEN [type |-> type, text |-> text] ELSE cf[i]]
    ELSE Append(cf, [type |-> type, text |-> text])

RECURSIVE CfFromSpecs(_, _)
CfFromSpecs(cf, specs) ==
    IF specs = <<>> THEN cf
    ELSE CfFromSpecs(CfSet(cf, Head(specs).type, Text(Head(specs).value)), Tail(specs))

\* The loop of _load_module_config over the colour specs of the stored value:
\* only the sub-fields the widget already has are set.
RECURSIVE CfLoadSpecs(_, _)
CfLoadSpecs(cf, specs) ==
    IF specs = <<>> THEN cf
    ELSE CfLoadSpecs(IF CfHas(cf, Head(specs).type)
                     THEN CfSet(cf, Head(specs).type, Text(Head(specs).value))
                     ELSE cf,
                     Tail(specs))

\* f"{color_type}:{color_val}" for a stripped, non-empty sub-field text: the
\* first word becomes the token, further words follow it.
TokenOf(type, text) == <<Tok(type, text[1].val)>> \o Tail(text)

\* A join that writes a token for an empty sub-field too.
RECURSIVE RecomposeKeepsEmpty(_)
RecomposeKeepsEmpty(cf) ==
    IF cf = <<>> THEN <<>>
    ELSE (IF Strip(Head(cf).text) # <<>>
          THEN TokenOf(Head(cf).type, Strip(Head(cf).text))
          ELSE <<Tok(Head(cf).type, "")>>) \o RecomposeKeepsEmpty(Tail(cf))

\* The parts of the composite widget joined with single spaces (<<>>: no part).
RECURSIVE Recompose(_)
Recompose(cf) ==
    IF cf = <<>> THEN <<>>
    ELSE (IF Strip(Head(cf).text) # <<>>
          THEN TokenOf(Head(cf).type, Strip(Head(cf).text))
          ELSE <<>>) \o Recompose(Tail(cf))

(***************************************************************************)
(* The JSON schema: properties maps a section name to a schema node, $defs *)
(* a definition name to a node.  A node may carry $ref, allOf and          *)
(* properties.  A property has a type and optional default and bounds.     *)
(***************************************************************************)
\* The integers of a schema are Python integers, of any size: k * Giga + r
\* with 0 <= r < Giga is held as <<k, r>>, so that bounds beyond 32 bits can
\* be written and compared.
Giga == 10^9

Widen(n) == <<n \div Giga, n % Giga>>

WLeq(x, y) == x[1] < y[1] \/ (x[1] = y[1] /\ x[2] <= y[2])

\* max(x, y) and min(x, y) of Python
WMax(x, y) == IF WLeq(y, x) THEN x ELSE y

WMin(x, y) == IF WLeq(x, y) THEN x ELSE y

\* The integer a wide integer within 32 bits stands for.
Narrow(w) == IF w[1] >= 0 THEN w[1] * Giga + w[2] ELSE (w[1] + 1) * Giga + (w[2] - Giga)

\* A schema property; default_int is the default of an integer property.
Prop(name, type, has_default, default) ==
    [name |-> name, type |-> type, has_default |-> has_default, default |-> default,
     default_int |-> Widen(0),
     has_minimum |-> FALSE, minimum |-> Widen(0), has_maximum |-> FALSE, maximum |-> Widen(0)]

IntProp(name, has_default, default, has_min, min, has_max, max) ==
    [name |-> name, type |-> "integer", has_default |-> has_default, default |-> IntV(0),
     default_int |-> default,
     has_minimum |-> has_min, minimum |-> min, has_maximum |-> has_max, maximum |-> max]

PropsNode(props) ==
    [has_ref |-> FALSE, ref_local |-> FALSE, ref_name |-> "",
     has_allOf |-> FALSE, allOf |-> <<>>, has_properties |-> TRUE, properties |-> props]

RefNode(local, name) ==
    [has_ref |-> TRUE, ref_local |-> local, ref_name |-> name,
     has_allOf |-> FALSE, allOf |-> <<>>, has_properties |-> FALSE, properties |-> <<>>]

AllOfNode(items) ==
    [has_ref |-> FALSE, ref_local |-> FALSE, ref_name |-> "",
     has_allOf |-> TRUE, allOf |-> items, has_properties |-> FALSE, properties |-> <<>>]

\* {}: a node with no key at all
EmptyNode ==
    [has_ref |-> FALSE, ref_local |-> FALSE, ref_name |-> "",
     has_allOf |-> FALSE, allOf |-> <<>>, has_properties |-> FALSE, properties |-> <<>>]

\* self.schema_data = None
NoSchema == [loaded |-> FALSE, has_properties |-> FALSE, properties |-> <<>>, defs |-> <<>>]

Schema(properties, defs) ==
    [loaded |-> TRUE, has_properties |-> TRUE, properties |-> properties, defs |-> defs]

\* The first allOf item carrying properties (None: <<>>).
RECURSIVE FirstWithProperties(_)
FirstWithProperties(items) ==
    IF items = <<>> THEN <<>>
    ELSE IF Head(items).has_properties THEN Head(items).properties
    ELSE FirstWithProperties(Tail(items))

\* The schema resolution of _show_module_panel: schema_props for the module
\* (<<>> stands for None and for {}, both of which build no field).
ResolveSchemaProps(schema, module_name) ==
    IF schema.loaded /\ schema.has_properties
    THEN LET module_schema == GetOr(schema.properties, module_name, EmptyNode)
         IN  IF module_schema.has_ref
             THEN IF module_schema.ref_local /\ Has(schema.defs, module_schema.ref_name)
                  THEN LET resolved == Get(schema.defs, module_schema.ref_name)
                       IN  IF resolved.has_properties THEN resolved.properties ELSE <<>>
                  ELSE <<>>
             ELSE IF module_schema.has_allOf
             THEN FirstWithProperties(module_schema.allOf)
             ELSE IF module_schema.has_properties THEN module_schema.properties ELSE <<>>
    ELSE <<>>

(***************************************************************************)
(* Module forms (module_widgets): the ordered dict of the opened modules;  *)
(* a form is the `enabled` check box and the ordered dict of its fields.   *)
(***************************************************************************)
\* 'symbol' in prop_name.lower(), over the property names of the schemas used
IsSymbolField(prop_name) == prop_name \in {"symbol", "success_symbol", "error_symbol"}

\* any(kw in prop_name.lower() for kw in ['color', 'style', 'fg', 'bg'])
IsColorField(prop_name) == prop_name \in {"style", "read_only_style", "color", "bg", "fg"}

SPINBOX_MIN == -2147483647 - 1
SPINBOX_MAX == 2147483647
DefaultMaximum == 999999

Max(x, y) == IF x >= y THEN x ELSE y
Min(x, y) == IF x <= y THEN x ELSE y

\* bool(value) of a document value
Truthiness(v) ==
    CASE v.t = "bool" -> v.b
      [] v.t = "int" -> v.n # 0
      [] v.t = "str" -> v.s # <<>>
      [] v.t = "array" -> v.a # <<>>
      [] OTHER -> v.e # <<>>

\* An argument a C int of the toolkit can take.
FitsInt(w) == WLeq(Widen(SPINBOX_MIN), w) /\ WLeq(w, Widen(SPINBOX_MAX))

\* schema_min = max(minimum or 0, SPINBOX_MIN)
SchemaMin(prop_schema) ==
    WMax(IF prop_schema.has_minimum THEN prop_schema.minimum ELSE Widen(0), Widen(SPINBOX_MIN))

\* schema_max = min(maximum or 999999, SPINBOX_MAX)
SchemaMax(prop_schema) ==
    WMin(IF prop_schema.has_maximum THEN prop_schema.maximum ELSE Widen(DefaultMaximum),
         Widen(SPINBOX_MAX))

\* widget.setRange(schema_min, schema_max) raises OverflowError for an
\* argument beyond 32 bits: the minimum is clamped from below only and the
\* maximum from above only.
Overflows(prop_schema) ==
    /\ prop_schema.type = "integer"
    /\ ~(FitsInt(SchemaMin(prop_schema)) /\ FitsInt(SchemaMax(prop_schema)))

\* What stands for the widget of a call that raised.
OverflowError == Widget("OverflowError", FALSE, <<>>, 0, 0, 0, <<>>, <<>>)

\* The spin box of an integer property: setRange makes the maximum at least
\* the minimum, and setValue takes the clamped default.
CreateSpinBox(prop_schema, schema_min, schema_max) ==
    LET widget == QSpinBox(Narrow(schema_min),
                           Max(Narrow(schema_min), Narrow(schema_max)), 0)
    IN  IF prop_schema.has_default
        THEN SetValue(widget, Narrow(WMax(schema_min, WMin(prop_schema.default_int, schema_max))))
        ELSE widget

CreateWidgetForSchema(prop_schema) ==
    CASE prop_schema.type = "boolean" ->
            QCheckBox(IF prop_schema.has_default THEN Truthiness(prop_schema.default) ELSE FALSE)
      [] prop_schema.type = "integer" ->
            IF Overflows(prop_schema) THEN OverflowError
            ELSE CreateSpinBox(prop_schema, SchemaMin(prop_schema), SchemaMax(prop_schema))
      [] prop_schema.type = "array" -> QTextEdit(<<>>)
      [] OTHER ->
            QLineEdit(IF prop_schema.has_default THEN StrOf(prop_schema.default) ELSE <<>>)

\* _create_multi_color_field: one sub-field per colour spec of the value.
CreateMultiColorField(default_value) == Composite(CfFromSpecs(<<>>, ColorSpecs(default_value)))

\* The widget _create_module_panel builds for one schema property.
CreateField(prop_schema, actual_config) ==
    LET is_symbol_field == IsSymbolField(prop_schema.name)
        is_color_field == IsColorField(prop_schema.name)
        default_value == IF prop_schema.has_default THEN StrOf(prop_schema.default) ELSE <<>>
        actual_value == IF actual_config # <<>> /\ Has(actual_config, prop_schema.name)
                        THEN StrOf(Get(actual_config, prop_schema.name))
                        ELSE <<>>
        has_multiple_colors == HasColorSpec(default_value) \/ HasColorSpec(actual_value)
        value_to_use == IF actual_value # <<>> THEN actual_value ELSE default_value
    IN  IF prop_schema.type = "string" /\ (is_color_field \/ is_symbol_field)
        THEN IF has_multiple_colors /\ is_color_field
             THEN CreateMultiColorField(value_to_use)
             ELSE QLineEdit(value_to_use)
        ELSE CreateWidgetForSchema(prop_schema)

\* _create_module_panel: the enable box starts checked; one field per schema
\* property, none without schema properties.
\* The properties whose fields are built: all of them, or those before the
\* first one whose widget raises.
RECURSIVE BuiltProps(_)
BuiltProps(schema_props) ==
    IF schema_props = <<>> \/ Overflows(Head(schema_props)) THEN <<>>
    ELSE <<Head(schema_props)>> \o BuiltProps(Tail(schema_props))

CreateModulePanel(module_name, schema_props, actual_config) ==
    [name |-> module_name,
     enabled |-> TRUE,
     fields |-> [i \in DOMAIN BuiltProps(schema_props) |->
                    [name |-> schema_props[i].name,
                     w |-> CreateField(schema_props[i], actual_config)]]]

\* One field of _load_module_config, for a key the section holds.
LoadField(widget, value) ==
    CASE widget.kind = "Composite" ->
            [widget EXCEPT !.color_fields = CfLoadSpecs(widget.color_fields, ColorSpecs(StrOf(value)))]
      [] widget.kind = "QCheckBox" -> [widget EXCEPT !.checked = Truthiness(value)]
      [] widget.kind = "QLineEdit" -> [widget EXCEPT !.text = StrOf(value)]
      [] widget.kind = "QSpinBox" -> SetValue(widget, value.n)
      [] OTHER -> [widget EXCEPT !.lines = value.a]

\* A load that binds a key the section lacks as if it held `true`.
LoadModuleConfigBindsMissing(form, module_config) ==
    [form EXCEPT !.fields =
        [i \in DOMAIN form.fields |->
            [form.fields[i] EXCEPT !.w =
                LoadField(form.fields[i].w,
                          GetOr(module_config, form.fields[i].name, BoolV(TRUE)))]]]

\* _load_module_config: every field whose key the section holds takes the
\* stored value; the enable box is not touched.
LoadModuleConfig(form, module_config) ==
    [form EXCEPT !.fields =
        [i \in DOMAIN form.fields |->
            IF Has(module_config, form.fields[i].name)
            THEN [form.fields[i] EXCEPT !.w = LoadField(form.fields[i].w,
                                                 Get(module_config, form.fields[i].name))]
            ELSE form.fields[i]]]

IsOpen(widgets, module_name) == \E i \in DOMAIN widgets : widgets[i].name = module_name

FormOf(widgets, module_name) ==
    widgets[CHOOSE i \in DOMAIN widgets : widgets[i].name = module_name]

\* The build of the panel raises: a widget of the module refuses its range.
ShowRaises(widgets, schema, module_name) ==
    /\ ~IsOpen(widgets, module_name)
    /\ BuiltProps(ResolveSchemaProps(schema, module_name)) # ResolveSchemaProps(schema, module_name)

\* _show_module_panel: a panel is built only for a module that has none yet;
\* a build that raises leaves the form with the fields built so far, and the
\* values of the document are not loaded into it.
ShowModulePanel(widgets, schema, doc, module_name) ==
    IF IsOpen(widgets, module_name) THEN widgets
    ELSE LET schema_props == ResolveSchemaProps(schema, module_name)
             actual_config == IF Truthy(doc) /\ Has(doc, module_name)
                              THEN Get(doc, module_name).e ELSE <<>>
             panel == CreateModulePanel(module_name, schema_props, actual_config)
         IN  Append(widgets,
                    IF /\ BuiltProps(schema_props) = schema_props
                       /\ Truthy(doc) /\ Has(doc, module_name)
                    THEN LoadModuleConfig(panel, Get(doc, module_name).e)
                    ELSE panel)

(***************************************************************************)
(* _update_config_from_gui: the commit of every widget into the document.  *)
(***************************************************************************)
\* A field loop that stores truthy values and never deletes a key.
CommitFieldNeverDeletes(module_table, field_name, widget) ==
    LET store(v) == Put(module_table, field_name, v)
    IN  CASE widget.kind = "Composite" ->
                IF Recompose(widget.color_fields) # <<>>
                THEN store(StrV(Recompose(widget.color_fields))) ELSE module_table
          [] widget.kind = "QCheckBox" ->
                IF widget.checked THEN store(BoolV(TRUE)) ELSE module_table
          [] widget.kind = "QLineEdit" ->
                IF Strip(widget.text) # <<>> THEN store(StrV(Strip(widget.text)))
                ELSE module_table
          [] widget.kind = "QSpinBox" ->
                IF widget.value # 0 THEN store(IntV(widget.value)) ELSE module_table
          [] OTHER ->
                IF StripLines(widget.lines) # <<>> THEN store(ArrV(StripLines(widget.lines)))
                ELSE module_table

\* The body of the field loop for one field: the value of the widget is
\* stored when truthy, else the key is deleted; an unchecked box other than
\* `disabled` is skipped.
CommitField(module_table, field_name, widget) ==
    LET store(v) == Put(module_table, field_name, v)
        drop == IF Has(module_table, field_name) THEN Del(module_table, field_name)
                ELSE module_table
    IN  CASE widget.kind = "Composite" ->
                IF Recompose(widget.color_fields) # <<>>
                THEN store(StrV(Recompose(widget.color_fields))) ELSE drop
          [] widget.kind = "QCheckBox" ->
                IF ~widget.checked /\ field_name # "disabled" THEN module_table
                ELSE IF widget.checked THEN store(BoolV(TRUE)) ELSE drop
          [] widget.kind = "QLineEdit" ->
                IF Strip(widget.text) # <<>> THEN store(StrV(Strip(widget.text))) ELSE drop
          [] widget.kind = "QSpinBox" ->
                IF widget.value # 0 THEN store(IntV(widget.value)) ELSE drop
          [] OTHER ->
                IF StripLines(widget.lines) # <<>> THEN store(ArrV(StripLines(widget.lines)))
                ELSE drop

RECURSIVE CommitFields(_, _)
CommitFields(module_table, fields) ==
    IF fields = <<>> THEN module_table
    ELSE CommitFields(CommitField(module_table, Head(fields).name, Head(fields).w), Tail(fields))

\* A module loop whose disabled branch replaces the section by one holding
\* `disabled` alone.
CommitModuleResetsSection(doc, form) ==
    IF ~form.enabled
    THEN IF Has(doc, form.name)
         THEN Put(doc, form.name, TblV(<<Entry("disabled", BoolV(TRUE))>>))
         ELSE doc
    ELSE LET doc1 == IF Has(doc, form.name) THEN doc ELSE Put(doc, form.name, TblV(<<>>))
         IN  Put(doc1, form.name, TblV(CommitFields(Get(doc1, form.name).e, form.fields)))

\* One pass of the module loop: a form whose enable box is unchecked marks an
\* existing section disabled and is skipped; else the section is created when
\* missing and every field committed.
CommitModule(doc, form) ==
    IF ~form.enabled
    THEN IF Has(doc, form.name)
         THEN Put(doc, form.name, TblV(Put(Get(doc, form.name).e, "disabled", BoolV(TRUE))))
         ELSE doc
    ELSE LET doc1 == IF Has(doc, form.name) THEN doc ELSE Put(doc, form.name, TblV(<<>>))
         IN  Put(doc1, form.name, TblV(CommitFields(Get(doc1, form.name).e, form.fields)))

RECURSIVE CommitModules(_, _)
CommitModules(doc, widgets) ==
    IF widgets = <<>> THEN doc
    ELSE CommitModules(CommitModule(doc, Head(widgets)), Tail(widgets))

\* A prompt input: stored when its stripped text is non-empty, else deleted.
CommitPrompt(doc, key, text) ==
    IF Strip(text) # <<>> THEN Put(doc, key, StrV(Strip(text)))
    ELSE IF Has(doc, key) THEN Del(doc, key) ELSE doc

\* The dotted name f"{parent_key}.{child_key}", a single key.
FullKey(parent_key, child_key) == parent_key \o "." \o child_key

\* The names a child of custom, env_var or palettes has in the documents used.
ChildNames == {"foo", "main", "variable"}

\* k.startswith(parent_key + '.')
StartsWithParent(k, parent_key) == \E c \in ChildNames : k = FullKey(parent_key, c)

DelKeys(doc, ks) == SelectSeq(doc, LAMBDA x : x.k \notin ks)

\* for key, value in parsed.items(): self.config_data[key] = value
RECURSIVE PutAll(_, _)
PutAll(doc, items) ==
    IF items = <<>> THEN doc
    ELSE PutAll(IF Head(items).k = "" THEN doc ELSE Put(doc, Head(items).k, Head(items).v),
                Tail(items))

\* A merge that returns once it has removed the keys with a dotted prefix.
MergeEditorReturnsAfterRemoval(doc, text, parents) ==
    IF text = <<>> THEN doc
    ELSE LET keys_to_remove == {k \in Keys(doc) : \E q \in parents : StartsWithParent(k, q)}
             parsed == Parse(text)
         IN  IF keys_to_remove # {} THEN DelKeys(doc, keys_to_remove)
             ELSE IF parsed.ok THEN PutAll(doc, parsed.doc) ELSE doc

\* The merge of an editor text into the document: keys with one of the dotted
\* prefixes are removed first, then the parsed text is added key by key; a
\* text that does not parse adds nothing.
MergeEditorToConfig(doc, text, parents) ==
    IF text = <<>> THEN doc
    ELSE LET keys_to_remove == {k \in Keys(doc) : \E q \in parents : StartsWithParent(k, q)}
             doc1 == DelKeys(doc, keys_to_remove)
             parsed == Parse(text)
         IN  IF parsed.ok THEN PutAll(doc1, parsed.doc) ELSE doc1

MergeCustomModulesToConfig(doc, custom_text) ==
    MergeEditorToConfig(doc, custom_text, {"custom", "env_var"})

MergePalettesToConfig(doc, palette_text) ==
    MergeEditorToConfig(doc, palette_text, {"palettes"})

\* _update_config_from_gui, up to the refresh of the raw editor: the document
\* after the commit of the global widgets u and of the forms.
UpdateConfigFromGui(doc, u, widgets) ==
    LET d1 == Put(doc, "add_newline", BoolV(u.add_newline_check))
        d2 == Put(d1, "scan_timeout", IntV(u.scan_timeout_spin))
        d3 == Put(d2, "command_timeout", IntV(u.command_timeout_spin))
        d4 == Put(d3, "follow_symlinks", BoolV(u.follow_symlinks_check))
        d5 == CommitPrompt(d4, "format", u.prompt_format_input)
        d6 == CommitPrompt(d5, "right_format", u.prompt_right_format_input)
        d7 == CommitPrompt(d6, "continuation_prompt", u.prompt_continuation_input)
        d8 == CommitModules(d7, widgets)
        d9 == MergeCustomModulesToConfig(d8, u.custom_modules_editor)
    IN  MergePalettesToConfig(d9, u.palettes_editor)

\* _update_full_editor: the raw editor shows the document unless it is empty.
UpdateFullEditor(u, doc) ==
    IF Truthy(doc) THEN [u EXCEPT !.full_config_editor = Serialize(doc)] ELSE u

(***************************************************************************)
(* Loading: the default document, the population of the fixed widgets and  *)
(* the flat module list.                                                   *)
(***************************************************************************)
Modules == {"character", "python"}

DefaultScanTimeout == 30
DefaultCommandTimeout == 500
SpinMaximum == 10000

\* _create_default_config
CreateDefaultConfig ==
    << Entry("", CmtV(Text("Starship Configuration"))),
       Entry("", CmtV(Text("Generated by Starship Configurator"))),
       Entry("add_newline", BoolV(TRUE)),
       Entry("scan_timeout", IntV(DefaultScanTimeout)),
       Entry("command_timeout", IntV(DefaultCommandTimeout)),
       Entry("character", TblV(<< Entry("success_symbol", StrV(Text("[>](bold green)"))),
                                  Entry("error_symbol", StrV(Text("[>](bold red)"))) >>)) >>

\* The sections the custom and palettes editors show for the document: each
\* child of a parent table as a mini document under its dotted key.
RECURSIVE ChildSections(_, _)
ChildSections(parent_key, children) ==
    IF children = <<>> THEN <<>>
    ELSE (IF Head(children).k = "" THEN <<>>
          ELSE Serialize(Put(EmptyDoc, FullKey(parent_key, Head(children).k), Head(children).v)))
         \o ChildSections(parent_key, Tail(children))

ParentSections(doc, parent_key) ==
    IF Has(doc, parent_key) /\ IsTable(Get(doc, parent_key))
    THEN ChildSections(parent_key, Get(doc, parent_key).e)
    ELSE <<>>

\* _load_custom_modules_from_config: the editor is set only when a section
\* was found.
LoadCustomModulesFromConfig(u, doc) ==
    LET combined == ParentSections(doc, "custom") \o ParentSections(doc, "env_var")
    IN  IF combined # <<>> THEN [u EXCEPT !.custom_modules_editor = combined] ELSE u

\* _load_palettes_from_config
LoadPalettesFromConfig(u, doc) ==
    LET combined == ParentSections(doc, "palettes")
    IN  IF combined # <<>> THEN [u EXCEPT !.palettes_editor = combined] ELSE u

\* _populate_ui_from_config.  setChecked and setValue raise TypeError for a
\* value of another type; what was set before the raise stays set.
PopulateUiFromConfig(u, doc) ==
    IF ~Truthy(doc) THEN [ui |-> u, raised |-> FALSE]
    ELSE
    LET add_newline == GetOr(doc, "add_newline", BoolV(TRUE))
        scan_timeout == GetOr(doc, "scan_timeout", IntV(DefaultScanTimeout))
        command_timeout == GetOr(doc, "command_timeout", IntV(DefaultCommandTimeout))
        follow_symlinks == GetOr(doc, "follow_symlinks", BoolV(TRUE))
        u1 == [u EXCEPT !.add_newline_check = add_newline.b]
        u2 == [u1 EXCEPT !.scan_timeout_spin = Clamp(scan_timeout.n, 0, SpinMaximum)]
        u3 == [u2 EXCEPT !.command_timeout_spin = Clamp(command_timeout.n, 0, SpinMaximum)]
        u4 == [u3 EXCEPT !.follow_symlinks_check = follow_symlinks.b]
        u5 == IF Has(doc, "format")
              THEN [u4 EXCEPT !.prompt_format_input = StrOf(Get(doc, "format"))] ELSE u4
        u6 == IF Has(doc, "right_format")
              THEN [u5 EXCEPT !.prompt_right_format_input = StrOf(Get(doc, "right_format"))]
              ELSE u5
        u7 == IF Has(doc, "continuation_prompt")
              THEN [u6 EXCEPT !.prompt_continuation_input = StrOf(Get(doc, "continuation_prompt"))]
              ELSE u6
        u8 == LoadCustomModulesFromConfig(u7, doc)
        u9 == LoadPalettesFromConfig(u8, doc)
    IN  IF add_newline.t # "bool" THEN [ui |-> u, raised |-> TRUE]
        ELSE IF scan_timeout.t # "int" THEN [ui |-> u1, raised |-> TRUE]
        ELSE IF command_timeout.t # "int" THEN [ui |-> u2, raised |-> TRUE]
        ELSE IF follow_symlinks.t # "bool" THEN [ui |-> u3, raised |-> TRUE]
        ELSE IF Has(doc, "palettes") /\ ~IsTable(Get(doc, "palettes"))
             THEN [ui |-> u8, raised |-> TRUE]
        ELSE [ui |-> UpdateFullEditor(u9, doc), raised |-> FALSE]

\* _update_module_list (category "All Modules", no search text): an item is
\* checked when its section exists and is not disabled.
UpdateModuleList(u, doc) ==
    [u EXCEPT !.module_list =
        [m \in Modules |->
            /\ Truthy(doc)
            /\ Has(doc, m)
            /\ ~Truthiness(GetOr(Get(doc, m).e, "disabled", BoolV(FALSE)))]]

(***************************************************************************)
(* Inputs: the schema the fetch delivers, the texts a user types into the  *)
(* raw editor or finds in a file, and the values typed into form fields.   *)
(***************************************************************************)
CharacterProps ==
    << Prop("disabled", "boolean", TRUE, BoolV(FALSE)),
       Prop("format", "string", FALSE, StrV(<<>>)) >>

PythonProps ==
    << Prop("disabled", "boolean", TRUE, BoolV(FALSE)),
       Prop("pyenv_version_name", "boolean", TRUE, BoolV(FALSE)),
       Prop("detect_extensions", "array", TRUE, ArrV(<<"py">>)) >>

StarshipSchema ==
    Schema(<< Entry("character", PropsNode(CharacterProps)),
              Entry("python", RefNode(TRUE, "PythonConfig")) >>,
           << Entry("PythonConfig", PropsNode(PythonProps)) >>)

Schemas == {StarshipSchema}

TextEmpty == <<>>
TextMalformed == <<LJunk>>
TextCharacter ==
    << LHeader(<<"character">>), LKeyVal("format", StrV(Text("$symbol"))) >>
TextPython ==
    << LHeader(<<"python">>),
       LKeyVal("disabled", BoolV(TRUE)),
       LKeyVal("pyenv_version_name", BoolV(TRUE)),
       LKeyVal("detect_extensions", ArrV(<<"py">>)) >>
TextIllTyped == << LKeyVal("add_newline", StrV(Text("yes"))) >>

\* The texts a configuration file holds.
FileTexts == {TextMalformed, TextCharacter, TextPython}

\* The texts the user types into the raw editor.
RawTexts == {TextEmpty, TextMalformed, TextCharacter, TextIllTyped}

\* The files the user picks in "Load Configuration".
ChosenTexts == {TextMalformed, TextPython}

File(text) == [exists |-> TRUE, text |-> text]
NoFile == [exists |-> FALSE, text |-> <<>>]

InitialFiles == {NoFile} \cup {File(t) : t \in FileTexts}

LineTexts == {<<>>, Blank, Text("$all")}
PromptTexts == {<<>>, Text("$all")}
ArrayTexts == {<<>>, <<"ipynb">>}
ColorTexts == {<<>>, Text("blue")}
SpinValues == {0, 3}

(***************************************************************************)
(* State.                                                                  *)
(***************************************************************************)
VARIABLES
    config_data,     \* the in-memory document
    schema_data,     \* the schema, NoSchema until the fetch delivered it
    module_widgets,  \* the opened module forms
    ui,              \* the fixed widgets: global settings, prompt inputs, editors, module list
    disk,            \* the configuration file at config_path
    fetch,           \* the schema fetch: "loading", "loaded" or "failed"
    schema_thread,   \* SchemaFetcher: where run stands, what it emitted, what is queued
    app,             \* the process: "running", "closed" (exec returned), "exited", "aborted"
    last,            \* the handler that ran last and whether it reported an error
    toggled,         \* the section fields before a disable of the list, until the next handler
    steps            \* the number of handlers run since construction

vars ==
    <<config_data, schema_data, module_widgets, ui, disk, fetch, schema_thread, app,
      last, toggled, steps>>

\* The number of handlers a run of the model follows after construction.
MaxSteps == 4

\* error: the handler showed an error box; cause: "parse" when the text did
\* not parse, "populate" when a widget refused a value, else the failed step.
Ran(op, module, checked, error, cause) ==
    [op |-> op, module |-> module, checked |-> checked, error |-> error, cause |-> cause]

Done(op) == Ran(op, "", FALSE, FALSE, "")

Failed(op, cause) == Ran(op, "", FALSE, TRUE, cause)

Other == Done("other")

NoToggle == [module |-> "", fields |-> <<>>, present |-> FALSE, closed |-> FALSE]

\* SchemaFetcher as __init__ starts it: run is about to open the URL; nothing
\* was emitted and nothing waits in the event queue of the window.
Started == [pc |-> "connect", chunks |-> 0, emitted |-> <<>>, queue |-> <<>>]

\* A signal of the thread: schema_loaded carries the schema, schema_failed
\* carries none.
Signal(name, schema) == [signal |-> name, schema |-> schema]

\* A thread whose emit also runs the except clause of run.
EmitAndFail(thread, sig) ==
    [thread EXCEPT !.pc = "done",
                   !.emitted = Append(@, sig.signal) \o <<"schema_failed">>,
                   !.queue = Append(@, sig) \o <<Signal("schema_failed", NoSchema)>>]

\* signal.emit(...), the last statement run executes on either path: the
\* connection to the window is queued, so the signal waits for the event loop.
Emit(thread, sig) ==
    [thread EXCEPT !.pc = "done", !.emitted = Append(@, sig.signal), !.queue = Append(@, sig)]

\* The thread after run has emitted sig and the window has handled it.
Finished(sig) == [Emit(Started, sig) EXCEPT !.queue = <<>>]

\* The widgets as _build_ui leaves them.
BuildUi ==
    [add_newline_check |-> TRUE,
     scan_timeout_spin |-> DefaultScanTimeout,
     command_timeout_spin |-> DefaultCommandTimeout,
     follow_symlinks_check |-> TRUE,
     prompt_format_input |-> <<>>,
     prompt_right_format_input |-> <<>>,
     prompt_continuation_input |-> <<>>,
     custom_modules_editor |-> <<>>,
     palettes_editor |-> <<>>,
     full_config_editor |-> <<>>,
     module_list |-> [m \in Modules |-> FALSE]]

\* What _load_initial_config leaves: the document, the widgets after the
\* refresh of the raw editor and of the module list, and whether "Load Error"
\* was shown and why.
Loaded(doc, u, error, cause) ==
    [doc |-> doc, ui |-> UpdateModuleList(UpdateFullEditor(u, doc), doc),
     error |-> error, cause |-> cause]

\* The file parsed: the widgets are populated from its document; an exception
\* of the population is handled as one of the parse.
LoadedDocument(doc, pop) ==
    IF pop.raised THEN Loaded(CreateDefaultConfig, pop.ui, TRUE, "populate")
    ELSE Loaded(doc, pop.ui, FALSE, "")

LoadedText(u, parsed) ==
    IF ~parsed.ok THEN Loaded(CreateDefaultConfig, u, TRUE, "parse")
    ELSE LoadedDocument(parsed.doc, PopulateUiFromConfig(u, parsed.doc))

\* _load_initial_config, for the file found and the answer to "Create a new
\* one?".
LoadInitialConfig(u, file, create) ==
    IF file.exists THEN LoadedText(u, Parse(file.text))
    ELSE Loaded(IF create THEN CreateDefaultConfig ELSE EmptyDoc, u, FALSE, "")

Init ==
    \E file \in InitialFiles, create \in BOOLEAN :
      \E loaded \in {LoadInitialConfig(BuildUi, file, create)} :
            /\ config_data = loaded.doc
            /\ ui = loaded.ui
            /\ disk = file
            /\ schema_data = NoSchema
            /\ module_widgets = <<>>
            /\ fetch = "loading"
            /\ schema_thread = Started
            /\ app = "running"
            /\ last = Ran("init", "", FALSE, loaded.error, loaded.cause)
            /\ toggled = NoToggle
            /\ steps = 0

(***************************************************************************)
(* Handlers.                                                               *)
(***************************************************************************)
\* The fields of a section other than `disabled` (none for a missing section).
SectionFields(doc, module_name) ==
    IF Has(doc, module_name) /\ IsTable(Get(doc, module_name))
    THEN Del(Get(doc, module_name).e, "disabled")
    ELSE <<>>

\* One more handler runs, within the bound of the model.
Tick == steps < MaxSteps /\ steps' = steps + 1

\* The fetch succeeds and _on_schema_loaded, the completion handler, stores
\* the schema: the run of the thread and the handler as one step.
OnSchemaLoaded ==
    /\ Tick
    /\ fetch = "loading"
    /\ \E schema \in Schemas :
         /\ schema_data' = schema
         /\ schema_thread' = Finished(Signal("schema_loaded", schema))
    /\ fetch' = "loaded"
    /\ last' = Other
    /\ toggled' = NoToggle
    /\ UNCHANGED <<config_data, module_widgets, ui, disk, app>>

\* The fetch fails and _on_schema_failed reports it, as one step.
OnSchemaFailed ==
    /\ Tick
    /\ fetch = "loading"
    /\ fetch' = "failed"
    /\ schema_thread' = Finished(Signal("schema_failed", NoSchema))
    /\ last' = Other
    /\ toggled' = NoToggle
    /\ UNCHANGED <<config_data, schema_data, module_widgets, ui, disk, app>>

\* _filter_modules / the category combo: the list is rebuilt from the document.
FilterModules ==
    /\ Tick
    /\ ui' = UpdateModuleList(ui, config_data)
    /\ last' = Other
    /\ toggled' = NoToggle
    /\ UNCHANGED <<config_data, schema_data, module_widgets, disk, fetch, schema_thread, app>>

\* A toggle whose enabling branch starts the section afresh.
ToggleModuleResetsSection(doc, module_name, is_checked) ==
    IF is_checked
    THEN Put(doc, module_name, TblV(<<>>))
    ELSE Put(doc, module_name,
             TblV(Put(IF Has(doc, module_name) THEN Get(doc, module_name).e ELSE <<>>,
                      "disabled", BoolV(TRUE))))

\* The document after _on_module_checkbox_changed for the item of module_name
\* now showing is_checked.
ToggleModule(doc, module_name, is_checked) ==
    LET d0 == IF ~Truthy(doc) THEN CreateDefaultConfig ELSE doc
        d1 == IF ~Has(d0, module_name) THEN Put(d0, module_name, TblV(<<>>)) ELSE d0
        tb == Get(d1, module_name).e
    IN  IF is_checked
        THEN IF Has(tb, "disabled") THEN Put(d1, module_name, TblV(Del(tb, "disabled"))) ELSE d1
        ELSE Put(d1, module_name, TblV(Put(tb, "disabled", BoolV(TRUE))))

\* The user clicks the check box of a module in the list.
OnModuleCheckboxChanged(module_name) ==
    \E is_checked \in {~ui.module_list[module_name]} :
      \E doc \in {ToggleModule(config_data, module_name, is_checked)} :
        /\ Tick
        /\ config_data' = doc
        /\ ui' = UpdateFullEditor([ui EXCEPT !.module_list[module_name] = is_checked], doc)
        /\ last' = Ran("toggle", module_name, is_checked, FALSE, "")
        /\ toggled' = IF ~is_checked
                      THEN [module |-> module_name,
                            fields |-> SectionFields(config_data, module_name),
                            present |-> Has(config_data, module_name),
                            closed |-> FALSE]
                      ELSE IF toggled.module = module_name /\ ~toggled.closed
                           THEN [toggled EXCEPT !.closed = TRUE]
                           ELSE NoToggle
        /\ UNCHANGED <<schema_data, module_widgets, disk, fetch, schema_thread, app>>

\* _on_module_selected: the user selects a module of the list.
OnModuleSelected(module_name) ==
    /\ Tick
    /\ module_widgets' = ShowModulePanel(module_widgets, schema_data, config_data, module_name)
    /\ \E raised \in {ShowRaises(module_widgets, schema_data, module_name)} :
         last' = Ran("select", module_name, FALSE, raised, IF raised THEN "overflow" ELSE "")
    /\ toggled' = NoToggle
    /\ UNCHANGED <<config_data, schema_data, ui, disk, fetch, schema_thread, app>>

FormIndex(module_name) == CHOOSE i \in DOMAIN module_widgets : module_widgets[i].name = module_name

\* The user clicks the enable box of an open form.
EditEnabled(module_name) ==
    /\ Tick
    /\ IsOpen(module_widgets, module_name)
    /\ module_widgets' = [module_widgets EXCEPT ![FormIndex(module_name)].enabled = ~@]
    /\ last' = Other
    /\ toggled' = NoToggle
    /\ UNCHANGED <<config_data, schema_data, ui, disk, fetch, schema_thread, app>>

\* The states the user can give a field widget.
Edits(w) ==
    CASE w.kind = "QCheckBox" -> {[w EXCEPT !.checked = ~@]}
      [] w.kind = "QLineEdit" -> {[w EXCEPT !.text = s] : s \in LineTexts}
      [] w.kind = "QSpinBox" -> {SetValue(w, v) : v \in SpinValues}
      [] w.kind = "QTextEdit" -> {[w EXCEPT !.lines = ls] : ls \in ArrayTexts}
      [] OTHER -> {[w EXCEPT !.color_fields = CfSet(@, @[i].type, s)] :
                       i \in DOMAIN w.color_fields, s \in ColorTexts}

\* The user edits one field of an open form.
EditField(module_name) ==
    /\ Tick
    /\ IsOpen(module_widgets, module_name)
    /\ \E i \in DOMAIN FormOf(module_widgets, module_name).fields :
         \E w \in Edits(FormOf(module_widgets, module_name).fields[i].w) :
            /\ w # FormOf(module_widgets, module_name).fields[i].w
            /\ module_widgets' =
                 [module_widgets EXCEPT ![FormIndex(module_name)].fields[i].w = w]
    /\ last' = Other
    /\ toggled' = NoToggle
    /\ UNCHANGED <<config_data, schema_data, ui, disk, fetch, schema_thread, app>>

\* The user edits a global widget: the add_newline box or the prompt format.
EditGlobal ==
    /\ Tick
    /\ \/ ui' = [ui EXCEPT !.add_newline_check = ~@]
       \/ \E s \in PromptTexts :
            /\ s # ui.prompt_format_input
            /\ ui' = [ui EXCEPT !.prompt_format_input = s]
    /\ last' = Other
    /\ toggled' = NoToggle
    /\ UNCHANGED <<config_data, schema_data, module_widgets, disk, fetch, schema_thread, app>>

\* _reload_from_toml_editor, for the text the user left in the raw editor
\* (typed, or the one shown): the document is assigned as soon as the text
\* parses; an exception of the parse or of the population that follows shows
\* "Parse Error" and skips the rest.
ReloadFromTomlEditor ==
    /\ Tick
    /\ \E text \in RawTexts \cup {ui.full_config_editor} :
         \E typed \in {[ui EXCEPT !.full_config_editor = text]}, parsed \in {Parse(text)} :
           \E pop \in {PopulateUiFromConfig(typed, parsed.doc)} :
             IF ~parsed.ok
             THEN /\ config_data' = config_data
                  /\ ui' = typed
                  /\ last' = Failed("reload_editor", "parse")
             ELSE /\ config_data' = parsed.doc
                  /\ IF pop.raised
                     THEN /\ ui' = pop.ui
                          /\ last' = Failed("reload_editor", "populate")
                     ELSE /\ ui' = UpdateModuleList(pop.ui, parsed.doc)
                          /\ last' = Done("reload_editor")
    /\ toggled' = NoToggle
    /\ UNCHANGED <<schema_data, module_widgets, disk, fetch, schema_thread, app>>

\* _reload_config: "Reload from Disk" runs _load_initial_config again.
ReloadConfig ==
    /\ Tick
    /\ \E create \in (IF disk.exists THEN {TRUE} ELSE BOOLEAN) :
         \E loaded \in {LoadInitialConfig(ui, disk, create)} :
             /\ config_data' = loaded.doc
             /\ ui' = loaded.ui
             /\ last' = Ran("reload_disk", "", FALSE, loaded.error, loaded.cause)
    /\ toggled' = NoToggle
    /\ UNCHANGED <<schema_data, module_widgets, disk, fetch, schema_thread, app>>

\* _load_config_from_file with the file the user chose.
LoadConfigFromFile ==
    /\ Tick
    /\ \E text \in ChosenTexts :
         \E parsed \in {Parse(text)} :
           \E pop \in {PopulateUiFromConfig(ui, parsed.doc)} :
             IF ~parsed.ok
             THEN /\ UNCHANGED <<config_data, ui>>
                  /\ last' = Failed("load_file", "parse")
             ELSE /\ config_data' = parsed.doc
                  /\ IF pop.raised
                     THEN /\ ui' = pop.ui
                          /\ last' = Failed("load_file", "populate")
                     ELSE /\ ui' = UpdateModuleList(pop.ui, parsed.doc)
                          /\ last' = Done("load_file")
    /\ toggled' = NoToggle
    /\ UNCHANGED <<schema_data, module_widgets, disk, fetch, schema_thread, app>>

\* What open(path, 'w') followed by a failed write leaves in the file: it was
\* truncated, and holds nothing or the text short of its last line.
PartialWrites(text) ==
    {<<>>} \cup (IF text = <<>> THEN {} ELSE {SubSeq(text, 1, Len(text) - 1)})

\* _save_config: commit, mkdir, open for writing (which truncates), write.
\* fail names the step that raises: "open" for mkdir or open, which leave the
\* file alone, "write" for the write into the truncated file, "none" when the
\* save succeeds.
SaveConfig ==
    /\ Tick
    /\ \E doc \in {UpdateConfigFromGui(config_data, ui, module_widgets)} :
         /\ config_data' = doc
         /\ ui' = UpdateFullEditor(ui, doc)
         /\ \E fail \in {"none", "open", "write"}, text \in {Serialize(doc)} :
              /\ last' = IF fail = "none" THEN Done("save") ELSE Failed("save", fail)
              /\ CASE fail = "none" -> disk' = File(text)
                   [] fail = "write" ->
                         \E partial \in PartialWrites(text) : disk' = File(partial)
                   [] OTHER -> disk' = disk
    /\ toggled' = NoToggle
    /\ UNCHANGED <<schema_data, module_widgets, fetch, schema_thread, app>>

\* _generate_preview: commit, then the preview of a temporary copy.
GeneratePreview ==
    /\ Tick
    /\ \E doc \in {UpdateConfigFromGui(config_data, ui, module_widgets)} :
         /\ config_data' = doc
         /\ ui' = UpdateFullEditor(ui, doc)
    /\ last' = Done("preview")
    /\ toggled' = NoToggle
    /\ UNCHANGED <<schema_data, module_widgets, disk, fetch, schema_thread, app>>

Next ==
    \/ OnSchemaLoaded
    \/ OnSchemaFailed
    \/ FilterModules
    \/ \E m \in Modules : OnModuleCheckboxChanged(m)
    \/ \E m \in Modules : OnModuleSelected(m)
    \/ \E m \in Modules : EditEnabled(m)
    \/ \E m \in Modules : EditField(m)
    \/ EditGlobal
    \/ ReloadFromTomlEditor
    \/ ReloadConfig
    \/ LoadConfigFromFile
    \/ SaveConfig
    \/ GeneratePreview


Spec == Init /\ [][Next]_vars

(***************************************************************************)
(* The schema fetch, step by step: SchemaFetcher.run in its own thread,    *)
(* the queued delivery of its signal to the window, and the end of the     *)
(* process.                                                                *)
(***************************************************************************)
\* The number of reads of the response body that return data before the
\* response ends, stalls or no longer fits in memory.
MaxChunks == 2

\* The thread runs as long as the process lives; nothing in the program stops
\* it or waits for it.
ThreadRuns == app \in {"running", "closed"}

\* The bodies json.loads turns into a dict, and one it rejects (or that is
\* no dict, which emit refuses).
Bodies ==
    {[dict |-> TRUE, schema |-> schema] : schema \in Schemas}
        \cup {[dict |-> FALSE, schema |-> NoSchema]}

\* What run emits for a complete body.
Decoded(body) ==
    IF body.dict THEN Signal("schema_loaded", body.schema)
    ELSE Signal("schema_failed", NoSchema)

\* urlopen(SCHEMA_URL, timeout=10): the response headers arrive, or the call
\* raises (refused, unreachable, no answer within the timeout).
RunConnect ==
    /\ ThreadRuns
    /\ schema_thread.pc = "connect"
    /\ \E ok \in BOOLEAN :
         schema_thread' = IF ok THEN [schema_thread EXCEPT !.pc = "read"]
                          ELSE Emit(schema_thread, Signal("schema_failed", NoSchema))
    /\ UNCHANGED <<config_data, schema_data, module_widgets, ui, disk, fetch, app,
                   last, toggled, steps>>

\* A read without a timeout on a stalled connection: it never returns.
RunReadBlocks ==
    /\ ThreadRuns
    /\ schema_thread.pc = "read"
    /\ UNCHANGED vars

\* A thread that stores the schema itself instead of handing it to the window.
RunReadStoresSchema ==
    /\ ThreadRuns
    /\ schema_thread.pc = "read"
    /\ \E body \in Bodies :
         /\ schema_thread' = Emit(schema_thread, Decoded(body))
         /\ schema_data' = IF body.dict THEN body.schema ELSE schema_data
    /\ UNCHANGED <<config_data, module_widgets, ui, disk, fetch, app, last, toggled, steps>>

\* response.read() then json.loads and emit: each receive of the socket
\* returns data, returns the end of the body, or raises after the timeout;
\* a body that outgrows memory raises too.
RunRead ==
    /\ ThreadRuns
    /\ schema_thread.pc = "read"
    /\ \/ /\ schema_thread.chunks < MaxChunks
          /\ schema_thread' = [schema_thread EXCEPT !.chunks = @ + 1]
       \/ /\ schema_thread.chunks = MaxChunks
          /\ schema_thread' = Emit(schema_thread, Signal("schema_failed", NoSchema))
       \/ \E body \in Bodies : schema_thread' = Emit(schema_thread, Decoded(body))
       \/ schema_thread' = Emit(schema_thread, Signal("schema_failed", NoSchema))
    /\ UNCHANGED <<config_data, schema_data, module_widgets, ui, disk, fetch, app,
                   last, toggled, steps>>

\* The event loop delivers a queued schema_loaded: _on_schema_loaded.
HandleSchemaLoaded ==
    /\ app = "running"
    /\ schema_thread.queue # <<>>
    /\ Head(schema_thread.queue).signal = "schema_loaded"
    /\ schema_data' = Head(schema_thread.queue).schema
    /\ schema_thread' = [schema_thread EXCEPT !.queue = Tail(@)]
    /\ fetch' = "loaded"
    /\ last' = Other
    /\ toggled' = NoToggle
    /\ UNCHANGED <<config_data, module_widgets, ui, disk, app, steps>>

\* The event loop delivers a queued schema_failed: _on_schema_failed.
HandleSchemaFailed ==
    /\ app = "running"
    /\ schema_thread.queue # <<>>
    /\ Head(schema_thread.queue).signal = "schema_failed"
    /\ schema_thread' = [schema_thread EXCEPT !.queue = Tail(@)]
    /\ fetch' = "failed"
    /\ last' = Other
    /\ toggled' = NoToggle
    /\ UNCHANGED <<config_data, schema_data, module_widgets, ui, disk, app, steps>>

\* The user closes the window: app.exec() returns and no handler runs again.
CloseWindow ==
    /\ app = "running"
    /\ app' = "closed"
    /\ UNCHANGED <<config_data, schema_data, module_widgets, ui, disk, fetch, schema_thread,
                   last, toggled, steps>>

\* sys.exit(...): the window and its SchemaFetcher are destroyed.  Destroying
\* a QThread whose run has not returned is an error of the toolkit, which may
\* abort the process; the thread may also get to its end just in time.
ExitProcess ==
    /\ app = "closed"
    /\ app' \in (IF schema_thread.pc # "done" THEN {"aborted", "exited"} ELSE {"exited"})
    /\ UNCHANGED <<config_data, schema_data, module_widgets, ui, disk, fetch, schema_thread,
                   last, toggled, steps>>

\* The handlers of the user run in the event loop, between the deliveries.
SelectWhileFetching(module_name) == app = "running" /\ OnModuleSelected(module_name)

ToggleWhileFetching(module_name) == app = "running" /\ OnModuleCheckboxChanged(module_name)

FetchNext ==
    \/ RunConnect
    \/ RunRead
    \/ HandleSchemaLoaded
    \/ HandleSchemaFailed
    \/ CloseWindow
    \/ ExitProcess
    \/ \E m \in Modules : SelectWhileFetching(m)
    \/ \E m \in Modules : ToggleWhileFetching(m)

\* The scheduler lets the thread run and the event loop handles what is
\* queued, as long as they can.
FetchSpec ==
    /\ Init
    /\ [][FetchNext]_vars
    /\ WF_vars(RunConnect)
    /\ WF_vars(RunRead)
    /\ WF_vars(HandleSchemaLoaded)
    /\ WF_vars(HandleSchemaFailed)

(***************************************************************************)
(* The synthesis of a form from a schema, over schemas of every encoding   *)
(* and integer properties of every size.                                   *)
(***************************************************************************)
\* The node of a section, with any of the three keys: a $ref to a definition
\* of $defs, to a name $defs lacks or to a path outside $defs; an allOf list
\* of fragments of each encoding; properties of its own.
NodeInputs ==
    LET RefInputs ==
            {[has |-> FALSE, local |-> FALSE, name |-> ""],
             [has |-> TRUE, local |-> TRUE, name |-> "PythonConfig"],
             [has |-> TRUE, local |-> TRUE, name |-> "Missing"],
             [has |-> TRUE, local |-> FALSE, name |-> "PythonConfig"]}
        AllOfInputs ==
            {[has |-> FALSE, items |-> <<>>],
             [has |-> TRUE, items |-> <<EmptyNode>>],
             [has |-> TRUE,
              items |-> <<EmptyNode,
                          PropsNode(<<Prop("symbol", "string", FALSE, StrV(<<>>))>>),
                          PropsNode(<<Prop("style", "string", FALSE, StrV(<<>>))>>)>>],
             [has |-> TRUE, items |-> <<RefNode(TRUE, "PythonConfig")>>]}
    IN  {[has_ref |-> ref.has, ref_local |-> ref.local, ref_name |-> ref.name,
          has_allOf |-> allOf.has, allOf |-> allOf.items,
          has_properties |-> given,
          properties |-> IF given THEN CharacterProps ELSE <<>>] :
            ref \in RefInputs, allOf \in AllOfInputs, given \in BOOLEAN}

\* Integer properties whose bounds and default are absent, within 32 bits
\* (0, 100, 150) or beyond (-6e9, -5e9, -4e9, 3e9, 4e9, 6e9).
IntegerInputs ==
    LET Optional(values) ==
            {[has |-> FALSE, v |-> Widen(0)]} \cup {[has |-> TRUE, v |-> v] : v \in values}
    IN  {IntProp("min_time", default.has, default.v, min.has, min.v, max.has, max.v) :
            default \in Optional({<<-6, 0>>, Widen(150), <<6, 0>>}),
            min \in Optional({<<-5, 0>>, Widen(0), <<3, 0>>}),
            max \in Optional({<<-4, 0>>, Widen(100), <<4, 0>>})}

\* The schemas whose section `python` is one of the nodes, and those whose
\* section `character` holds one of the integer properties after `format`.
SchemaInputs ==
    {Schema(<< Entry("character", PropsNode(CharacterProps)), Entry("python", node) >>,
            << Entry("PythonConfig", PropsNode(PythonProps)) >>) : node \in NodeInputs}
        \cup
    {Schema(<< Entry("character", PropsNode(Append(CharacterProps, prop_schema))),
               Entry("python", RefNode(TRUE, "PythonConfig")) >>,
            << Entry("PythonConfig", PropsNode(PythonProps)) >>) :
        prop_schema \in IntegerInputs}

\* The window after the fetch delivered one of the schemas.
SchemaInit ==
    \E file \in InitialFiles, schema \in SchemaInputs :
      \E loaded \in {LoadInitialConfig(BuildUi, file, TRUE)} :
            /\ config_data = loaded.doc
            /\ ui = loaded.ui
            /\ disk = file
            /\ schema_data = schema
            /\ module_widgets = <<>>
            /\ fetch = "loaded"
            /\ schema_thread = Finished(Signal("schema_loaded", schema))
            /\ app = "running"
            /\ last = Other
            /\ toggled = NoToggle
            /\ steps = 0

SchemaSpec == SchemaInit /\ [][\E m \in Modules : OnModuleSelected(m)]_vars

(***************************************************************************)
(* The form of one section, from its load to its commit: a section         *)
(* `character` with a style, a number and a list, under a schema whose     *)
(* style has a default or none.                                            *)
(***************************************************************************)
\* The style strings a section holds: colour tokens alone (in either order,
\* with a colour name, a hyphenated name, a colour number, a repeated kind),
\* plain words, and words mixed with a token.
StyleTexts ==
    {<<Tok("fg", "red")>>,
     <<Tok("fg", "red"), Tok("bg", "blue")>>,
     <<Tok("bg", "blue"), Tok("fg", "red")>>,
     <<Tok("fg", "bright-blue")>>,
     <<Tok("bg", "27")>>,
     <<Tok("fg", "red"), Tok("fg", "blue")>>,
     Text("bold"),
     <<Word("bold"), Tok("fg", "red")>>}

\* The files of the form runs: the section with one of the styles, with a
\* number, with an empty list, with nothing; no section.
FormTexts ==
    {<<LHeader(<<"character">>), LKeyVal("style", StrV(style))>> : style \in StyleTexts}
        \cup {<<LHeader(<<"character">>), LKeyVal("min_time", IntV(n))>> : n \in {0, 5}}
        \cup {<<LHeader(<<"character">>), LKeyVal("detect_extensions", ArrV(<<>>))>>,
              <<LHeader(<<"character">>)>>,
              <<LKeyVal("add_newline", BoolV(FALSE))>>}

\* The schema of the form runs: the style of `character` has no default, or
\* one made of colour tokens.
FormSchemas ==
    {Schema(<< Entry("character",
                     PropsNode(<< Prop("disabled", "boolean", TRUE, BoolV(FALSE)),
                                  style,
                                  IntProp("min_time", FALSE, Widen(0), FALSE, Widen(0),
                                          FALSE, Widen(0)),
                                  Prop("detect_extensions", "array", TRUE, ArrV(<<"py">>)) >>)),
               Entry("python", RefNode(TRUE, "PythonConfig")) >>,
            << Entry("PythonConfig", PropsNode(PythonProps)) >>) :
        style \in {Prop("style", "string", FALSE, StrV(<<>>)),
                   Prop("style", "string", TRUE,
                        StrV(<<Tok("fg", "green"), Tok("bg", "black")>>))}}

\* The window after the load of one of the files and the delivery of one of
\* the schemas.
FormInit ==
    \E text \in FormTexts, schema \in FormSchemas :
      \E loaded \in {LoadInitialConfig(BuildUi, File(text), TRUE)} :
            /\ config_data = loaded.doc
            /\ ui = loaded.ui
            /\ disk = File(text)
            /\ schema_data = schema
            /\ module_widgets = <<>>
            /\ fetch = "loaded"
            /\ schema_thread = Finished(Signal("schema_loaded", schema))
            /\ app = "running"
            /\ last = Ran("init", "", FALSE, loaded.error, loaded.cause)
            /\ toggled = NoToggle
            /\ steps = 0

FormNext ==
    \/ \E m \in Modules : OnModuleSelected(m)
    \/ \E m \in Modules : EditField(m)
    \/ GeneratePreview

FormSpec == FormInit /\ [][FormNext]_vars

(***************************************************************************)
(* The prompt inputs and the editors of custom modules and palettes, over  *)
(* documents that hold a prompt format, custom modules and palettes.       *)
(***************************************************************************)
TextCustom ==
    << LHeader(<<"custom", "foo">>), LKeyVal("command", StrV(Text("date"))) >>

TextPalette ==
    << LHeader(<<"palettes", "main">>), LKeyVal("blue", StrV(Text("#0000ff"))) >>

\* The files of these runs: a prompt format with a custom module and a
\* palette, a custom module alone, a palette after a module section.
MergeTexts ==
    {<<LKeyVal("format", StrV(Text("$all")))>> \o TextCustom \o TextPalette,
     TextCustom,
     TextCharacter \o TextPalette}

\* The window after the load of one of the files.
MergeInit ==
    \E text \in MergeTexts :
      \E loaded \in {LoadInitialConfig(BuildUi, File(text), TRUE)} :
            /\ config_data = loaded.doc
            /\ ui = loaded.ui
            /\ disk = File(text)
            /\ schema_data = StarshipSchema
            /\ module_widgets = <<>>
            /\ fetch = "loaded"
            /\ schema_thread = Finished(Signal("schema_loaded", StarshipSchema))
            /\ app = "running"
            /\ last = Ran("init", "", FALSE, loaded.error, loaded.cause)
            /\ toggled = NoToggle
            /\ steps = 0

\* The user replaces the text of the custom modules editor or of the palettes
\* editor: by nothing, by text that is no TOML, by a section.
EditEditor ==
    /\ Tick
    /\ \/ \E text \in {<<>>, TextMalformed, TextCustom} :
            /\ text # ui.custom_modules_editor
            /\ ui' = [ui EXCEPT !.custom_modules_editor = text]
       \/ \E text \in {<<>>, TextMalformed, TextPalette} :
            /\ text # ui.palettes_editor
            /\ ui' = [ui EXCEPT !.palettes_editor = text]
    /\ last' = Other
    /\ toggled' = NoToggle
    /\ UNCHANGED <<config_data, schema_data, module_widgets, disk, fetch, schema_thread, app>>

\* Without an edit: what the widgets hold comes from the documents loaded.
ReplaceNext ==
    \/ LoadConfigFromFile
    \/ ReloadFromTomlEditor
    \/ ReloadConfig
    \/ \E m \in Modules : OnModuleSelected(m)
    \/ GeneratePreview

ReplaceSpec == MergeInit /\ [][ReplaceNext]_vars

MergeNext ==
    \/ EditEditor
    \/ LoadConfigFromFile
    \/ \E m \in Modules : OnModuleSelected(m)
    \/ \E m \in Modules : EditField(m)
    \/ GeneratePreview

MergeSpec == MergeInit /\ [][MergeNext]_vars

(***************************************************************************)
(* Properties.                                                             *)
(***************************************************************************)
\* The handlers that commit the widgets into the document.
Committed(l) == l.op \in {"save", "preview"}

\* The open forms.
Forms == {module_widgets[i] : i \in DOMAIN module_widgets}

\* The section a form is bound to (empty when the document has none).
SectionOf(doc, form) == IF Has(doc, form.name) THEN Get(doc, form.name).e ELSE <<>>

\* The form _show_module_panel would build for a module now.
FreshForm(schema, doc, module_name) == ShowModulePanel(<<>>, schema, doc, module_name)[1]

\* C1: a reload from the raw editor that ends in its error box leaves the
\* document, and every widget but the text just typed, as they were.
C1_RejectedReloadKeepsDocument ==
    [][(last'.op = "reload_editor" /\ last'.error)
        => /\ config_data' = config_data
           /\ ui' = [ui EXCEPT !.full_config_editor = ui'.full_config_editor]
           /\ module_widgets' = module_widgets]_vars

\* C2: after a successful reload from the raw editor no open form holds
\* values of the replaced document: every form that is still kept is the one
\* that would be built from the new document.
C2_ReloadInvalidatesForms ==
    [][(last'.op = "reload_editor" /\ ~last'.error)
        => \A i \in DOMAIN module_widgets' :
              module_widgets'[i] =
                  FreshForm(schema_data', config_data', module_widgets'[i].name)]_vars

\* C3: a save that ends in its error box leaves an existing file on disk
\* with the contents it had.
C3_FailedSaveKeepsFile ==
    [][(last'.op = "save" /\ last'.error /\ disk.exists) => disk' = disk]_vars

\* C4: a load from disk that fails because the text does not parse keeps the
\* document held before the attempt.
C4_MalformedLoadKeepsDocument ==
    [][(last'.op \in {"reload_disk", "load_file"} /\ last'.error /\ last'.cause = "parse")
        => config_data' = config_data]_vars

\* C5: after a commit, the section of an enabled form has no key for a box
\* other than `disabled` that is unchecked.
C5_UncheckedBoxIsAbsent ==
    Committed(last) =>
        \A form \in Forms : form.enabled =>
            \A i \in DOMAIN form.fields :
                LET f == form.fields[i]
                IN  (f.w.kind = "QCheckBox" /\ ~f.w.checked /\ f.name # "disabled")
                        => ~Has(SectionOf(config_data, form), f.name)

\* C6: after a commit, `disabled` is true in the section of every form whose
\* enable box is unchecked and absent from the section of every form whose
\* enable box is checked.
C6_DisabledFollowsForm ==
    Committed(last) =>
        \A form \in Forms :
            /\ ~form.enabled =>
                  /\ Has(SectionOf(config_data, form), "disabled")
                  /\ Get(SectionOf(config_data, form), "disabled") = BoolV(TRUE)
            /\ form.enabled => ~Has(SectionOf(config_data, form), "disabled")

\* A text widget or an array widget of a form that holds nothing.
HoldsNothing(w) ==
    \/ w.kind = "QLineEdit" /\ Strip(w.text) = <<>>
    \/ w.kind = "QTextEdit" /\ StripLines(w.lines) = <<>>

\* C7: after a commit, the section of an enabled form has no key for a
\* string field whose text is empty nor for an array field whose text is
\* empty.
C7_EmptyValueIsDeleted ==
    Committed(last) =>
        \A form \in Forms : form.enabled =>
            \A i \in DOMAIN form.fields :
                HoldsNothing(form.fields[i].w)
                    => ~Has(SectionOf(config_data, form), form.fields[i].name)

\* The file holds `format` in [character], the form of character was built
\* from it and emptied, and the commit has removed the key from a section
\* that is still there.
C7_Witness ==
    /\ last.op = "preview"
    /\ disk = File(TextCharacter)
    /\ \E form \in Forms :
          /\ form.name = "character" /\ form.enabled
          /\ \E i \in DOMAIN form.fields :
                form.fields[i].name = "format" /\ HoldsNothing(form.fields[i].w)
    /\ Has(config_data, "character")
    /\ ~Has(Get(config_data, "character").e, "format")

\* C8: a commit changes no key other than `disabled` in the section of a
\* form whose enable box is unchecked.
C8_DisabledFormKeepsFields ==
    [][Committed(last')
        => \A i \in DOMAIN module_widgets : ~module_widgets[i].enabled =>
              SectionFields(config_data', module_widgets[i].name)
                  = SectionFields(config_data, module_widgets[i].name)]_vars

\* The file holds [character] with `format` and no `disabled`; the form of
\* character, built with its fields, has its enable box unchecked, and a
\* commit has marked the section disabled and kept `format`.
C8_Witness ==
    /\ Committed(last)
    /\ disk = File(TextCharacter)
    /\ \E form \in Forms :
          /\ form.name = "character"
          /\ ~form.enabled
          /\ form.fields # <<>>
          /\ Has(SectionOf(config_data, form), "format")
          /\ Has(SectionOf(config_data, form), "disabled")

\* C9: a click on the box of a module in the list changes nothing of the
\* document but `disabled` of the section of that module, which is true
\* after unchecking and absent after checking.
C9_ToggleChangesOnlyDisabled ==
    [][last'.op = "toggle"
        => LET m == last'.module
           IN  /\ SectionFields(config_data', m) = SectionFields(config_data, m)
               /\ Del(config_data', m) = Del(config_data, m)
               /\ Has(config_data', m)
               /\ IF last'.checked
                  THEN ~Has(Get(config_data', m).e, "disabled")
                  ELSE /\ Has(Get(config_data', m).e, "disabled")
                       /\ Get(Get(config_data', m).e, "disabled") = BoolV(TRUE)]_vars

\* C10: unchecking the box of a module and checking it again leaves every
\* field of the section as it was before the first click, and `disabled`
\* absent.
C10_ToggleOffOnRestores ==
    toggled.closed =>
        /\ SectionFields(config_data, toggled.module) = toggled.fields
        /\ Has(config_data, toggled.module)
        /\ ~Has(Get(config_data, toggled.module).e, "disabled")

\* The two clicks have happened on a section that has fields to keep.
C10_Witness ==
    /\ toggled.closed
    /\ toggled.fields # <<>>
    /\ last.op = "toggle" /\ last.checked /\ last.module = toggled.module

\* The section created by _create_default_config, which is always present.
DefaultSection == "character"

\* The section of a module holds a true `disabled`.
DisabledIn(doc, module_name) ==
    /\ Has(doc, module_name)
    /\ Has(Get(doc, module_name).e, "disabled")
    /\ Truthiness(Get(Get(doc, module_name).e, "disabled"))

\* C11: after a toggle or a commit, the serialized document has no header
\* for a section, other than the default one, that is not disabled and holds
\* no field.
C11_EmptySectionIsPruned ==
    (last.op = "toggle" \/ Committed(last)) =>
        \A m \in Modules \ {DefaultSection} :
            (~DisabledIn(config_data, m) /\ SectionFields(config_data, m) = <<>>)
                => \A i \in DOMAIN Serialize(config_data) :
                      Serialize(config_data)[i] # LHeader(<<m>>)

\* C12: the last writer decides `disabled` of a section: after a click in
\* the list it is the opposite of the box clicked, after a commit it is the
\* opposite of the enable box of the form of the section.
C12_LastWriterWins ==
    [][/\ last'.op = "toggle" => DisabledIn(config_data', last'.module) = ~last'.checked
       /\ Committed(last') =>
            \A i \in DOMAIN module_widgets :
                DisabledIn(config_data', module_widgets[i].name) = ~module_widgets[i].enabled]_vars

\* The names of the fields of a sequence of fields or of properties.
Names(items) == {items[i].name : i \in DOMAIN items}

\* C13: once the schema is loaded, the form shown for a selected module has
\* a field for each schema property of the module, also when the form was
\* opened before the schema arrived.
C13_SchemaAugmentsOpenForm ==
    (last.op = "select" /\ schema_data.loaded) =>
        Names(FormOf(module_widgets, last.module).fields)
            = Names(ResolveSchemaProps(schema_data, last.module))

\* The fields every module has: the ones offered without a schema.
CommonFields == {"format", "style", "disabled"}

\* C14: without a schema, the form shown for a selected module has the
\* common fields format, style and disabled, each showing the value the
\* section holds for it.
C14_GenericFieldsWithoutSchema ==
    (last.op = "select" /\ ~schema_data.loaded) =>
        LET form == FormOf(module_widgets, last.module)
        IN  \A k \in CommonFields :
                \E i \in DOMAIN form.fields :
                    /\ form.fields[i].name = k
                    /\ Has(SectionOf(config_data, form), k) =>
                          form.fields[i].w = LoadField(form.fields[i].w,
                                                       Get(SectionOf(config_data, form), k))

\* C15: a started fetch emits one signal at most, schema_loaded or
\* schema_failed and never both; the state the handler sets agrees with that
\* signal; once the fetch has left "loading" neither its state nor the thread
\* changes again, so nothing is retried.
C15_FetchDeliversOneOutcome ==
    [][/\ Len(schema_thread'.emitted) <= 1
       /\ fetch' = "loaded" => schema_thread'.emitted = <<"schema_loaded">>
       /\ fetch' = "failed" => schema_thread'.emitted = <<"schema_failed">>
       /\ fetch # "loading" => (fetch' = fetch /\ schema_thread' = schema_thread)
       /\ schema_thread.pc = "done" => schema_thread'.pc = "done"]_vars

C15_Witness ==
    /\ fetch = "loaded"
    /\ schema_thread.pc = "done"
    /\ schema_thread.emitted = <<"schema_loaded">>
    /\ schema_thread.queue = <<>>
    /\ schema_thread.chunks = MaxChunks

\* C16: the run of the thread ends as long as the process lives, and the
\* window, as long as it is open, leaves "loading".
C16_FetchLeavesLoading ==
    /\ <>(schema_thread.pc = "done" \/ ~ThreadRuns)
    /\ <>(fetch # "loading" \/ app # "running")

C16_Witness ==
    /\ fetch = "failed"
    /\ app = "running"
    /\ schema_thread.chunks = MaxChunks
    /\ schema_thread.emitted = <<"schema_failed">>

\* C17: a step of the thread leaves the schema, the document, the forms and
\* the widgets alone; the schema changes only when the window handles the
\* queued schema_loaded, to the schema that signal carries; at every moment
\* the schema is absent or one complete schema.
C17_ThreadWritesNothing ==
    [][/\ (schema_thread.pc # "done" /\ schema_thread' # schema_thread) =>
              UNCHANGED <<schema_data, config_data, module_widgets, ui, fetch>>
       /\ schema_data' # schema_data =>
              /\ schema_thread.queue # <<>>
              /\ Head(schema_thread.queue) = Signal("schema_loaded", schema_data')
              /\ schema_thread'.queue = Tail(schema_thread.queue)
       /\ schema_data' \in {NoSchema} \cup Schemas]_vars

C17_Witness ==
    /\ last.op = "select"
    /\ schema_thread.queue # <<>>
    /\ Head(schema_thread.queue).signal = "schema_loaded"
    /\ schema_data = NoSchema
    /\ module_widgets # <<>>

Resolvable(schema, node) ==
    /\ node.has_ref
    /\ node.ref_local
    /\ Has(schema.defs, node.ref_name)
    /\ Get(schema.defs, node.ref_name).has_properties

\* The properties a node carries itself or through its reference.
Carried(schema, node) ==
    IF node.has_properties THEN node.properties
    ELSE IF Resolvable(schema, node) THEN Get(schema.defs, node.ref_name).properties
    ELSE <<>>

\* The properties of the first fragment of a list that carries any.
RECURSIVE FirstCarried(_, _)
FirstCarried(schema, items) ==
    IF items = <<>> THEN <<>>
    ELSE IF Carried(schema, Head(items)) # <<>> THEN Carried(schema, Head(items))
    ELSE FirstCarried(schema, Tail(items))

\* A node of one encoding only.
OnlyProperties(node) == node.has_properties /\ ~node.has_ref /\ ~node.has_allOf
OnlyRef(node) == node.has_ref /\ ~node.has_properties /\ ~node.has_allOf
OnlyAllOf(node) == node.has_allOf /\ ~node.has_properties /\ ~node.has_ref

\* C19: for the module just selected, the resolution gives the own properties
\* of a node that gives them directly, the properties of the definition a
\* $ref node names, the properties of the first fragment carrying some for an
\* allOf node, and nothing only if the node carries properties under none of
\* the three encodings.
C19_SchemaResolution ==
    (last.op = "select" /\ schema_data.loaded) =>
        LET node == GetOr(schema_data.properties, last.module, EmptyNode)
            schema_props == ResolveSchemaProps(schema_data, last.module)
        IN  /\ OnlyProperties(node) => schema_props = node.properties
            /\ OnlyRef(node) => schema_props = Carried(schema_data, node)
            /\ OnlyAllOf(node) => schema_props = FirstCarried(schema_data, node.allOf)
            /\ schema_props = <<>> =>
                  /\ Carried(schema_data, node) = <<>>
                  /\ node.has_allOf => FirstCarried(schema_data, node.allOf) = <<>>

\* A bound of a schema within the signed 32-bit range.
Clamp32(w) == WMax(Widen(SPINBOX_MIN), WMin(w, Widen(SPINBOX_MAX)))

\* C20: every integer property of an open form whose bounds, clamped to 32
\* bits, form a range has a numeric field with exactly that range; the field
\* holds the default clamped into the range when the schema gives one, and
\* in any case a value within the range.
C20_IntegerFieldIsClamped ==
    \A f \in DOMAIN module_widgets :
        LET form == module_widgets[f]
            schema_props == ResolveSchemaProps(schema_data, form.name)
        IN  \A p \in DOMAIN schema_props :
                LET prop_schema == schema_props[p]
                    lo == Clamp32(IF prop_schema.has_minimum THEN prop_schema.minimum
                                  ELSE Widen(0))
                    hi == Clamp32(IF prop_schema.has_maximum THEN prop_schema.maximum
                                  ELSE Widen(DefaultMaximum))
                IN  (prop_schema.type = "integer" /\ WLeq(lo, hi)) =>
                        \E i \in DOMAIN form.fields :
                            /\ form.fields[i].name = prop_schema.name
                            /\ form.fields[i].w.kind = "QSpinBox"
                            /\ form.fields[i].w.lo = Narrow(lo)
                            /\ form.fields[i].w.hi = Narrow(hi)
                            /\ form.fields[i].w.lo <= form.fields[i].w.value
                            /\ form.fields[i].w.value <= form.fields[i].w.hi
                            /\ prop_schema.has_default =>
                                  form.fields[i].w.value =
                                      Narrow(WMax(lo, WMin(prop_schema.default_int, hi)))

\* The form of the module selected last is as its build left it: nothing was
\* edited since.
Untouched ==
    /\ last.op = "select"
    /\ ~last.error
    /\ FormOf(module_widgets, last.module) = FreshForm(schema_data, config_data, last.module)

\* The (kind, value) pairs of a style string.
Pairs(s) == {<<s[i].kind, s[i].val>> : i \in DOMAIN s}

TokensOnly(s) == s # <<>> /\ \A i \in DOMAIN s : s[i].kind \in ColorKinds

\* C21: a commit right after the build of a form leaves every style of the
\* section that is made of colour tokens only with the same set of
\* (kind, value) pairs.
C21_ColourRoundTrip ==
    [][(Untouched /\ Committed(last')) =>
          LET before == SectionOf(config_data, FormOf(module_widgets, last.module))
              after == SectionOf(config_data', FormOf(module_widgets, last.module))
          IN  \A i \in DOMAIN before :
                  (/\ IsColorField(before[i].k)
                   /\ before[i].v.t = "str"
                   /\ TokensOnly(before[i].v.s)) =>
                      /\ Has(after, before[i].k)
                      /\ Get(after, before[i].k).t = "str"
                      /\ Pairs(Get(after, before[i].k).s) = Pairs(before[i].v.s)]_vars

\* C25: a commit right after the build of a form leaves every key of the
\* section in place with its value.
C25_LoadThenCommitKeepsKeys ==
    [][(Untouched /\ Committed(last')) =>
          LET before == SectionOf(config_data, FormOf(module_widgets, last.module))
              after == SectionOf(config_data', FormOf(module_widgets, last.module))
          IN  \A i \in DOMAIN before :
                  before[i].k # "" =>
                      /\ Has(after, before[i].k)
                      /\ Get(after, before[i].k) = before[i].v]_vars

\* C28: after a commit the section of every enabled form holds, for each of
\* its numeric fields, the number the field shows.
C28_IntegerFieldIsPersisted ==
    Committed(last) =>
        \A form \in Forms :
            form.enabled =>
                \A i \in DOMAIN form.fields :
                    form.fields[i].w.kind = "QSpinBox" =>
                        /\ Has(SectionOf(config_data, form), form.fields[i].name)
                        /\ Get(SectionOf(config_data, form), form.fields[i].name)
                              = IntV(form.fields[i].w.value)

\* The sub-fields of a composite widget that hold a text.
Populated(cf) == SelectSeq(cf, LAMBDA x : Strip(x.text) # <<>>)

ColourTokens(s) == SelectSeq(s, LAMBDA w : w.kind \in ColorKinds)

\* C22: after a commit, the style of every composite field of an enabled
\* form holds one token per sub-field with a text, in the order of the
\* sub-fields, of the kind of the sub-field and with its text as value, and
\* no blank word; with no sub-field holding a text the key is absent.
C22_RecomposeSkipsEmpty ==
    Committed(last) =>
        \A form \in Forms :
            form.enabled =>
                \A i \in DOMAIN form.fields :
                    form.fields[i].w.kind = "Composite" =>
                        LET populated == Populated(form.fields[i].w.color_fields)
                            section == SectionOf(config_data, form)
                            key == form.fields[i].name
                        IN  IF populated = <<>> THEN ~Has(section, key)
                            ELSE /\ Has(section, key)
                                 /\ Get(section, key).t = "str"
                                 /\ Strip(Get(section, key).s) = Get(section, key).s
                                 /\ Len(ColourTokens(Get(section, key).s)) = Len(populated)
                                 /\ \A j \in DOMAIN populated :
                                        ColourTokens(Get(section, key).s)[j]
                                          = Tok(populated[j].type, Strip(populated[j].text)[1].val)

C22_Witness ==
    /\ Committed(last)
    /\ \E form \in Forms :
          /\ form.enabled
          /\ \E i \in DOMAIN form.fields :
                /\ form.fields[i].w.kind = "Composite"
                /\ Len(form.fields[i].w.color_fields) = 2
                /\ Len(Populated(form.fields[i].w.color_fields)) = 1
                /\ Has(SectionOf(config_data, form), form.fields[i].name)

\* The form of the module selected last, as its build left it.
Fresh ==
    /\ last.op = "select"
    /\ FormOf(module_widgets, last.module) = FreshForm(schema_data, config_data, last.module)

\* The state of a widget for a property the section does not hold.
AtDefault(w, prop_schema) ==
    CASE prop_schema.type = "boolean" ->
            /\ w.kind = "QCheckBox"
            /\ w.checked = (prop_schema.has_default /\ Truthiness(prop_schema.default))
      [] prop_schema.type = "integer" ->
            w.kind = "QSpinBox" /\ w.lo <= w.value /\ w.value <= w.hi
      [] prop_schema.type = "array" -> w.kind = "QTextEdit" /\ w.lines = <<>>
      [] OTHER ->
            \/ /\ w.kind = "QLineEdit"
               /\ w.text = IF prop_schema.has_default THEN StrOf(prop_schema.default) ELSE <<>>
            \/ /\ w.kind = "Composite"
               /\ prop_schema.has_default
               /\ \A j \in DOMAIN w.color_fields :
                     <<w.color_fields[j].type, w.color_fields[j].text[1].val>>
                        \in Pairs(prop_schema.default.s)

\* C23: the build of a form raises nothing; every property of the schema has
\* its field, a field whose key the section lacks (or whose section is
\* absent) is in the empty or default state of its type, and a section
\* without `disabled` gives a form whose enable box is checked.
C23_MissingDataBindsDefaults ==
    Fresh =>
        LET form == FormOf(module_widgets, last.module)
            schema_props == ResolveSchemaProps(schema_data, last.module)
            section == SectionOf(config_data, form)
        IN  /\ ~last.error
            /\ ~Has(section, "disabled") => form.enabled
            /\ Len(form.fields) = Len(schema_props)
            /\ \A i \in DOMAIN form.fields :
                  ~Has(section, schema_props[i].name) =>
                      /\ form.fields[i].name = schema_props[i].name
                      /\ AtDefault(form.fields[i].w, schema_props[i])

C23_Witness ==
    /\ Fresh
    /\ Has(config_data, last.module)
    /\ Len(FormOf(module_widgets, last.module).fields) = 4
    /\ SectionOf(config_data, FormOf(module_widgets, last.module)) # <<>>
    /\ ~Has(SectionOf(config_data, FormOf(module_widgets, last.module)), "disabled")
    /\ ~Has(SectionOf(config_data, FormOf(module_widgets, last.module)), "style")

\* d1 == d2 for two documents or tables: the same keys with the same values,
\* in any order; comments are no keys.
RECURSIVE SameBody(_, _)
SameBody(d1, d2) ==
    /\ Keys(d1) = Keys(d2)
    /\ \A k \in Keys(d1) :
          LET v1 == Get(d1, k)
              v2 == Get(d2, k)
          IN  IF IsTable(v1) /\ IsTable(v2) THEN SameBody(v1.e, v2.e) ELSE v1 = v2

\* The step reloads the document from the text the raw editor showed.
ReloadsUnedited ==
    /\ last'.op = "reload_editor"
    /\ ~last'.error
    /\ Parse(ui.full_config_editor).ok
    /\ config_data' = Parse(ui.full_config_editor).doc

\* C24: the parse of the serialization of the document is the document, key
\* for key; and a reload from the raw editor, with the text the program left
\* there, leaves the document as it was.
C24_RoundTrip ==
    /\ [](/\ Parse(Serialize(config_data)).ok
          /\ SameBody(Parse(Serialize(config_data)).doc, config_data))
    /\ [][ReloadsUnedited => SameBody(config_data', config_data)]_vars

\* C26: a step that changes the document leaves the serialization of the
\* new document in the raw editor.
C26_EditorShowsDocument ==
    [][config_data' # config_data =>
          ui'.full_config_editor = Serialize(config_data')]_vars

PromptKeys == {"format", "right_format", "continuation_prompt"}

EditorParents == {"custom", "env_var", "palettes"}

\* The top-level key k holds a custom module, an environment variable or a
\* palette that the document doc holds too, as a key or as a child section.
FromDocument(doc, k) ==
    \/ Has(doc, k)
    \/ \E q \in EditorParents, c \in ChildNames :
          /\ k = FullKey(q, c)
          /\ Has(doc, q)
          /\ IsTable(Get(doc, q))
          /\ Has(Get(doc, q).e, c)

\* C27: a commit that directly follows a load that replaced the document
\* adds no prompt value, custom module, environment variable or palette
\* that the loaded document does not hold.
C27_NoLeakAfterReplace ==
    [][(/\ last.op \in {"load_file", "reload_editor", "reload_disk"}
        /\ ~last.error
        /\ Committed(last')) =>
          /\ \A k \in PromptKeys : Has(config_data', k) => Has(config_data, k)
          /\ \A k \in Keys(config_data') :
                (k \in EditorParents \/ \E q \in EditorParents : StartsWithParent(k, q)) =>
                    FromDocument(config_data, k)]_vars

\* The text of an editor is not empty and does not parse.
Unparsable(text) == text # <<>> /\ ~Parse(text).ok

\* C29: a commit during which the text of the custom modules editor or of
\* the palettes editor fails to parse removes no top-level key other than an
\* emptied prompt value.
C29_FailedMergeKeepsKeys ==
    [][(/\ Committed(last')
        /\ \/ Unparsable(ui.custom_modules_editor)
           \/ Unparsable(ui.palettes_editor)) =>
          \A k \in Keys(config_data) \ PromptKeys : Has(config_data', k)]_vars

\* C30: a commit that directly follows a commit leaves the document as it
\* was: the same keys with the same values.
C30_CommitIsIdempotent ==
    [][(Committed(last) /\ Committed(last')) => SameBody(config_data', config_data)]_vars

\* After a commit: a form is open and enabled, and the custom module that the
\* editor of custom modules holds is a key of the document.
C30_Witness ==
    /\ Committed(last)
    /\ \E form \in Forms : form.enabled
    /\ ui.custom_modules_editor # <<>>
    /\ Parse(ui.custom_modules_editor).ok
    /\ Has(config_data, FullKey("custom", "foo"))
    /\ SameBody(UpdateConfigFromGui(config_data, ui, module_widgets), config_data)

====
